---- MODULE Spec2Model ----
(***************************************************************************)
(* Model of the decapod Python shim (sdk/python/decapod_shim.py) and of    *)
(* its demo script (examples/python_validate_demo.py).                     *)
(*                                                                         *)
(* Python values are tagged pairs <<tag, payload>>.  Texts are sequences   *)
(* of units: a unit is a whitespace character, a plain character or one    *)
(* JSON lexeme.  Byte strings are sequences of byte units: the UTF-8       *)
(* encoding of one text unit, or a byte that is not valid UTF-8.           *)
(***************************************************************************)
EXTENDS Integers, Sequences, FiniteSets, TLC

\* Longest stderr text (in units) the child process writes, besides the samples.
MaxErrLen == 2

(***************************************************************************)
(* Python values                                                           *)
(***************************************************************************)
PyNone == <<"none", "None">>
PyTrue == <<"bool", "True">>
PyFalse == <<"bool", "False">>
PyBool(b) == IF b THEN PyTrue ELSE PyFalse
PyStr(s) == <<"str", s>>
PyInt(n) == <<"int", n>>
PyList(xs) == <<"list", xs>>
\* A str given by the units of its text.
PyText(t) == <<"text", t>>
\* A dict is the sequence of its <<key, value>> items, in insertion order.
PyDict(kvs) == <<"dict", kvs>>

IsDict(v) == v[1] = "dict"
IsStr(v) == v[1] = "str"
IsBool(v) == v[1] = "bool"

\* Python truth value testing, as used by `or`, `if` and bool().
Truthy(v) ==
    CASE v[1] = "none" -> FALSE
      [] v[1] = "bool" -> v[2] = "True"
      [] v[1] = "int" -> v[2] # 0
      [] v[1] = "str" -> v[2] # ""
      [] OTHER -> Len(v[2]) > 0

\* a or b
PyOr(a, b) == IF Truthy(a) THEN a ELSE b

HasKey(d, k) == \E i \in 1..Len(d[2]) : d[2][i][1] = k

\* d.get(k, default)
DictGet(d, k, default) ==
    IF HasKey(d, k)
    THEN d[2][CHOOSE i \in 1..Len(d[2]) : d[2][i][1] = k][2]
    ELSE default

\* d[k] = v on a dict under construction: a repeated key keeps its place.
DictSet(kvs, k, v) ==
    IF \E i \in 1..Len(kvs) : kvs[i][1] = k
    THEN [i \in 1..Len(kvs) |-> IF kvs[i][1] = k THEN <<k, v>> ELSE kvs[i]]
    ELSE Append(kvs, <<k, v>>)

(***************************************************************************)
(* Text units                                                              *)
(***************************************************************************)
SP == <<"ws", " ">>
NL == <<"ws", "\n">>
Ch(c) == <<"ch", c>>
Replacement == <<"ch", "U+FFFD">>
LBrace == <<"p", "{">>
RBrace == <<"p", "}">>
LBracket == <<"p", "[">>
RBracket == <<"p", "]">>
Colon == <<"p", ":">>
Comma == <<"p", ",">>
StrLex(s) == <<"s", s>>
NumLex(n) == <<"n", n>>
Lit(w) == <<"lit", w>>

IsSpace(u) == u[1] = "ws"

RECURSIVE LStrip(_)
LStrip(t) == IF Len(t) > 0 /\ IsSpace(Head(t)) THEN LStrip(Tail(t)) ELSE t

RECURSIVE RStrip(_)
RStrip(t) ==
    IF Len(t) > 0 /\ IsSpace(t[Len(t)]) THEN RStrip(SubSeq(t, 1, Len(t) - 1)) ELSE t

\* str.strip() as a variant that trims the front only (lstrip).
StripLeadingOnly(t) == LStrip(t)

\* str.strip()
Strip(t) == RStrip(LStrip(t))

(***************************************************************************)
(* UTF-8                                                                   *)
(***************************************************************************)
BadByte == <<"bad", "FF">>

\* str.encode("utf-8")
Encode(t) == [i \in 1..Len(t) |-> <<"u8", t[i]>>]

WellFormed(b) == \A i \in 1..Len(b) : b[i][1] = "u8"

\* bytes.decode("utf-8"): the text, when WellFormed(b); UnicodeDecodeError otherwise.
DecodeStrict(b) == [i \in 1..Len(b) |-> b[i][2]]

\* bytes.decode("utf-8", errors="replace")
DecodeReplace(b) ==
    [i \in 1..Len(b) |-> IF b[i][1] = "u8" THEN b[i][2] ELSE Replacement]

(***************************************************************************)
(* json.dumps                                                              *)
(***************************************************************************)
Spaces(n) == [i \in 1..n |-> SP]

\* The separator between two items: ", " by default, "," and a new line with indent.
ItemSep(indent, level) ==
    IF indent = 0 THEN <<Comma, SP>> ELSE <<Comma, NL>> \o Spaces(indent * level)

\* What follows an opening and precedes a closing bracket of a non-empty container.
Open(indent, level) == IF indent = 0 THEN <<>> ELSE <<NL>> \o Spaces(indent * level)

RECURSIVE DumpsAt(_, _, _)
RECURSIVE DumpsItems(_, _, _)
RECURSIVE DumpsMembers(_, _, _)

DumpsItems(xs, indent, level) ==
    IF Len(xs) = 0 THEN <<>>
    ELSE DumpsAt(Head(xs), indent, level)
         \o (IF Len(xs) = 1 THEN <<>>
             ELSE ItemSep(indent, level) \o DumpsItems(Tail(xs), indent, level))

DumpsMembers(kvs, indent, level) ==
    IF Len(kvs) = 0 THEN <<>>
    ELSE <<StrLex(Head(kvs)[1]), Colon, SP>> \o DumpsAt(Head(kvs)[2], indent, level)
         \o (IF Len(kvs) = 1 THEN <<>>
             ELSE ItemSep(indent, level) \o DumpsMembers(Tail(kvs), indent, level))

DumpsAt(v, indent, level) ==
    CASE v[1] = "str" -> <<StrLex(v[2])>>
      [] v[1] = "int" -> <<NumLex(v[2])>>
      [] v[1] = "bool" -> <<Lit(IF v[2] = "True" THEN "true" ELSE "false")>>
      [] v[1] = "none" -> <<Lit("null")>>
      [] v[1] = "list" ->
            IF Len(v[2]) = 0 THEN <<LBracket, RBracket>>
            ELSE <<LBracket>> \o Open(indent, level + 1)
                 \o DumpsItems(v[2], indent, level + 1)
                 \o Open(indent, level) \o <<RBracket>>
      [] v[1] = "dict" ->
            IF Len(v[2]) = 0 THEN <<LBrace, RBrace>>
            ELSE <<LBrace>> \o Open(indent, level + 1)
                 \o DumpsMembers(v[2], indent, level + 1)
                 \o Open(indent, level) \o <<RBrace>>

\* json.dumps(v)
Dumps(v) == DumpsAt(v, 0, 0)

\* json.dumps(v, indent=n)
DumpsIndent(v, n) == DumpsAt(v, n, 0)

(***************************************************************************)
(* json.loads                                                              *)
(***************************************************************************)
ParseFail == [ok |-> FALSE, val |-> PyNone, rest |-> <<>>]
ParseOk(v, rest) == [ok |-> TRUE, val |-> v, rest |-> rest]

RECURSIVE ParseValue(_)
RECURSIVE ParseItems(_, _, _)
RECURSIVE ParseMembers(_, _, _)

\* The items of an array after "[": `first` until an item has been read.
ParseItems(toks, acc, first) ==
    IF Len(toks) = 0 THEN ParseFail
    ELSE IF first /\ Head(toks) = RBracket THEN ParseOk(PyList(acc), Tail(toks))
    ELSE LET r == ParseValue(toks) IN
         IF ~r.ok \/ Len(r.rest) = 0 THEN ParseFail
         ELSE IF Head(r.rest) = RBracket
              THEN ParseOk(PyList(Append(acc, r.val)), Tail(r.rest))
         ELSE IF Head(r.rest) = Comma
              THEN ParseItems(Tail(r.rest), Append(acc, r.val), FALSE)
         ELSE ParseFail

\* The members of an object after "{".
ParseMembers(toks, acc, first) ==
    IF Len(toks) = 0 THEN ParseFail
    ELSE IF first /\ Head(toks) = RBrace THEN ParseOk(PyDict(acc), Tail(toks))
    ELSE IF Len(toks) < 3 \/ toks[1][1] # "s" \/ toks[2] # Colon THEN ParseFail
    ELSE LET r == ParseValue(SubSeq(toks, 3, Len(toks))) IN
         IF ~r.ok \/ Len(r.rest) = 0 THEN ParseFail
         ELSE IF Head(r.rest) = RBrace
              THEN ParseOk(PyDict(DictSet(acc, toks[1][2], r.val)), Tail(r.rest))
         ELSE IF Head(r.rest) = Comma
              THEN ParseMembers(Tail(r.rest), DictSet(acc, toks[1][2], r.val), FALSE)
         ELSE ParseFail

ParseValue(toks) ==
    IF Len(toks) = 0 THEN ParseFail
    ELSE LET h == Head(toks) IN
         CASE h[1] = "s" -> ParseOk(PyStr(h[2]), Tail(toks))
           [] h[1] = "n" -> ParseOk(PyInt(h[2]), Tail(toks))
           [] h[1] = "lit" ->
                 ParseOk(CASE h[2] = "true" -> PyTrue
                           [] h[2] = "false" -> PyFalse
                           [] OTHER -> PyNone, Tail(toks))
           [] h = LBrace -> ParseMembers(Tail(toks), <<>>, TRUE)
           [] h = LBracket -> ParseItems(Tail(toks), <<>>, TRUE)
           [] OTHER -> ParseFail

\* The lexemes of a text: white space between them is skipped.
Lexemes(t) == SelectSeq(t, LAMBDA u : ~IsSpace(u))

\* json.loads(t): [ok |-> TRUE, val |-> the value], or ok = FALSE for JSONDecodeError.
Loads(t) ==
    LET toks == Lexemes(t)
        r == ParseValue(toks)
    IN  IF (\E i \in 1..Len(toks) : toks[i][1] = "ch") \/ ~r.ok \/ Len(r.rest) > 0
        THEN [ok |-> FALSE, val |-> PyNone]
        ELSE [ok |-> TRUE, val |-> r.val]

(***************************************************************************)
(* The environment: what callers pass in and what the child process does   *)
(***************************************************************************)
Ops == {"todo.list", "x"}

ParamsArgs ==
    { PyNone,
      PyDict(<<>>),
      PyDict(<< <<"k", PyStr("v")>>, <<"xs", PyList(<<PyInt(1), PyNone, PyTrue>>)>> >>) }

RequestIdArgs == {PyNone, PyStr(""), PyStr("req-1")}

\* What uuid.uuid4() may return, as text.
UUIDs == {"uuid4-a", "uuid4-b"}

\* What the operating system answers to the launch of the executable.
LaunchAnswers == {"ok", "ENOENT", "EACCES"}

ExitCodes == {0, 1, 127, -9}

BSeq(S, n) == UNION {[1..k -> S] : k \in 0..n}

Boom == <<Ch("b"), Ch("o"), Ch("o"), Ch("m")>>

\* What the child may write to stderr.
Stderrs ==
    BSeq({<<"u8", SP>>, <<"u8", Ch("b")>>, BadByte}, MaxErrLen)
    \cup { Encode(Boom),
           Encode(<<SP, NL>> \o Boom \o <<NL>>),
           Encode(<<Ch("b"), SP, Ch("o"), NL>>) }

ReplyIdItems == {<<>>} \cup {<< <<"id", v>> >> : v \in {PyStr("srv-1"), PyNone, PyInt(7)}}

ReplySuccessItems ==
    {<<>>} \cup {<< <<"success", v>> >> :
                    v \in {PyTrue, PyFalse, PyNone, PyInt(0), PyStr("no")}}

\* The JSON objects the rpc child may reply with.
ReplyDicts ==
    {PyDict(i \o s) : i \in ReplyIdItems, s \in ReplySuccessItems}
    \cup { PyDict(<< <<"success", PyTrue>>, <<"result", PyDict(<< <<"items", PyList(<<>>)>> >>)>> >>) }

\* What the rpc child may write to stdout: replies, other JSON, and text that is no JSON.
RpcStdouts ==
    {Encode(Dumps(d)) : d \in ReplyDicts}
    \cup { Encode(Dumps(PyDict(<< <<"success", PyTrue>> >>)) \o <<NL>>),
           Encode(<<LBrace, StrLex("id"), Colon, StrLex("a"), Comma,
                    StrLex("id"), Colon, StrLex("b"), RBrace>>) }
    \cup {Encode(Dumps(v)) : v \in {PyList(<<>>), PyInt(7), PyStr("x"), PyNone}}
    \cup { <<>>,
           Encode(<<LBrace>>),
           Encode(Boom),
           Encode(<<LBrace, RBrace, Ch("x")>>),
           Encode(<<LBrace, RBrace, LBrace, RBrace>>),
           Encode(<<LBrace, StrLex("success"), Colon, SP, Lit("true"), Comma, RBrace>>),
           <<BadByte>>,
           Encode(<<LBrace, RBrace>>) \o <<BadByte>> }

ValidateStdouts == {<<>>, Encode(<<Ch("o"), Ch("k"), NL>>), <<BadByte, <<"u8", NL>>>>}

\* The value of --fixture: None when the flag is not given.
FixtureArgs == {PyNone, PyStr(""), PyStr("fixture.json"), PyStr("missing.json")}

NoFile == [exists |-> FALSE, data |-> <<>>]
File(b) == [exists |-> TRUE, data |-> b]

\* What the file system may hold under a path.
Files(path) ==
    IF path \in {"", "missing.json"} THEN {NoFile}
    ELSE { File(Encode(Dumps(PyDict(<< <<"status", PyStr("ok")>> >>)) \o <<NL>>)),
           File(Encode(DumpsIndent(PyDict(<< <<"envelope_version", PyStr("1.0.0")>>,
                                             <<"status", PyStr("error")>>,
                                             <<"exit_code", PyInt(1)>> >>), 2))),
           File(Encode(Dumps(PyDict(<< <<"status", PyNone>> >>)))),
           File(Encode(Dumps(PyDict(<<>>)))),
           File(Encode(Dumps(PyList(<<>>)))),
           File(Encode(<<LBrace>>)),
           File(<<BadByte>>),
           File(<<>>) }

(***************************************************************************)
(* State                                                                   *)
(***************************************************************************)
VARIABLES
    pc,          \* "idle", "rpc_wait", "validate_wait", "demo_wait" or "done"
    entry,       \* what was called: "none", "run_rpc", "run_validate" or "demo"
    args,        \* the arguments of the call
    payload,     \* run_rpc's request envelope
    children,    \* the child processes of the call, in the order of their launch
    result,      \* how the call ended: returned a value or raised an exception
    fixtureFile, \* the file the demo opened
    printed,     \* what the demo wrote to its standard output
    exitStatus   \* the exit status of the demo process; -1 while it runs

vars == <<pc, entry, args, payload, children, result, fixtureFile, printed, exitStatus>>

NoArgs == [op |-> "", params |-> PyNone, request_id |-> PyNone, fixture |-> PyNone]

Pending == [kind |-> "none", exc |-> "", msg |-> <<>>, value |-> PyNone]
Return(v) == [kind |-> "return", exc |-> "", msg |-> <<>>, value |-> v]
Raise(e, m) == [kind |-> "raise", exc |-> e, msg |-> m, value |-> PyNone]

RpcArgv == <<"decapod", "rpc", "--stdin">>
ValidateArgv == <<"decapod", "validate">>

\* The exception of a failed launch, raised as a RuntimeError like a failed run.
SpawnErrorAsRuntime(answer) == "RuntimeError"

\* The exception subprocess.run raises when the executable cannot be launched.
SpawnError(answer) == IF answer = "ENOENT" THEN "FileNotFoundError" ELSE "PermissionError"

\* subprocess.run up to the launch of the child: the child reads `input` on its stdin.
Launch(argv, input, answer) ==
    [ state |-> IF answer = "ok" THEN "running" ELSE "failed",
      argv |-> argv, stdin |-> input, returncode |-> 0,
      stdout |-> <<>>, stderr |-> <<>> ]

\* The CompletedProcess of the call: the child launched last.
Proc == children[Len(children)]

Live == Cardinality({i \in 1..Len(children) : children[i].state = "running"})

Init ==
    /\ pc = "idle"
    /\ entry = "none"
    /\ args = NoArgs
    /\ payload = PyNone
    /\ children = <<>>
    /\ result = Pending
    /\ fixtureFile = NoFile
    /\ printed = <<>>
    /\ exitStatus = -1

(***************************************************************************)
(* run_rpc                                                                 *)
(***************************************************************************)
\* The request envelope of run_rpc.
BuildPayload(op, params, request_id, uuid) ==
    PyDict(<< <<"id", PyOr(request_id, PyStr(uuid))>>,
              <<"op", PyStr(op)>>,
              <<"params", PyOr(params, PyDict(<<>>))>> >>)

\* run_rpc from its call to the launch of the child, where it blocks.
RunRpcCall(op, params, request_id, uuid, answer) ==
    /\ pc = "idle"
    /\ entry' = "run_rpc"
    /\ args' = [NoArgs EXCEPT !.op = op, !.params = params, !.request_id = request_id]
    /\ payload' = BuildPayload(op, params, request_id, uuid)
    /\ children' = <<Launch(RpcArgv, Encode(Dumps(payload')), answer)>>
    /\ IF answer = "ok"
       THEN pc' = "rpc_wait" /\ result' = Pending
       ELSE pc' = "done" /\ result' = Raise(SpawnError(answer), <<>>)
    /\ UNCHANGED <<fixtureFile, printed, exitStatus>>

\* The response record with the id read from the reply alone.
RpcResponseNoDefault(raw, request) ==
    [ id |-> DictGet(raw, "id", PyNone),
      success |-> PyBool(Truthy(DictGet(raw, "success", PyFalse))),
      raw |-> raw ]

\* The response record built from the decoded reply.
RpcResponse(raw, request) ==
    [ id |-> DictGet(raw, "id", DictGet(request, "id", PyNone)),
      success |-> PyBool(Truthy(DictGet(raw, "success", PyFalse))),
      raw |-> raw ]

\* run_rpc after the child's exit, with a reply that does not decode taken as a
\* failed reply.
RpcOutcomeSwallow(proc, request) ==
    IF proc.returncode # 0
    THEN Raise("RuntimeError", Strip(DecodeReplace(proc.stderr)))
    ELSE LET j == IF WellFormed(proc.stdout) THEN Loads(DecodeStrict(proc.stdout))
                  ELSE [ok |-> FALSE, val |-> PyNone]
         IN  IF j.ok /\ IsDict(j.val) THEN Return(RpcResponse(j.val, request))
             ELSE Return(RpcResponse(PyDict(<<>>), request))

\* run_rpc after the child's exit: what it raises or returns.
RpcOutcome(proc, request) ==
    IF proc.returncode # 0
    THEN Raise("RuntimeError", Strip(DecodeReplace(proc.stderr)))
    ELSE IF ~WellFormed(proc.stdout) THEN Raise("UnicodeDecodeError", <<>>)
    ELSE LET j == Loads(DecodeStrict(proc.stdout)) IN
         IF ~j.ok THEN Raise("JSONDecodeError", <<>>)
         ELSE IF ~IsDict(j.val) THEN Raise("AttributeError", <<>>)
         ELSE Return(RpcResponse(j.val, request))

\* run_rpc launching the executable again when the child failed.
RunRpcReturnRetry ==
    /\ pc = "rpc_wait"
    /\ Proc.state = "exited"
    /\ IF Proc.returncode # 0 /\ Len(children) < 2
       THEN /\ children' = Append(children, Launch(RpcArgv, Proc.stdin, "ok"))
            /\ UNCHANGED <<pc, result>>
       ELSE /\ result' = RpcOutcome(Proc, payload)
            /\ pc' = "done"
            /\ UNCHANGED children
    /\ UNCHANGED <<entry, args, payload, fixtureFile, printed, exitStatus>>

\* run_rpc from the child's exit to its own end.
RunRpcReturn ==
    /\ pc = "rpc_wait"
    /\ Proc.state = "exited"
    /\ result' = RpcOutcome(Proc, payload)
    /\ pc' = "done"
    /\ UNCHANGED <<entry, args, payload, children, fixtureFile, printed, exitStatus>>

(***************************************************************************)
(* The child process                                                       *)
(***************************************************************************)
\* What a child launched with `argv` may write to stdout.
StdoutsOf(argv) == IF argv = RpcArgv THEN RpcStdouts ELSE ValidateStdouts

\* The running child writes its output and exits.
ChildExit ==
    /\ \E i \in 1..Len(children) :
          /\ children[i].state = "running"
          /\ \E rc \in ExitCodes, out \in StdoutsOf(children[i].argv), err \in Stderrs :
                children' = [children EXCEPT ![i] =
                    [@ EXCEPT !.state = "exited", !.returncode = rc,
                              !.stdout = out, !.stderr = err]]
    /\ UNCHANGED <<pc, entry, args, payload, result, fixtureFile, printed, exitStatus>>

(***************************************************************************)
(* run_validate                                                            *)
(***************************************************************************)
\* The envelope, with the status read off the error stream.
ValidateEnvelopeByStderr(proc) ==
    PyDict(<< <<"envelope_version", PyStr("1.0.0")>>,
              <<"cmd", PyStr("validate")>>,
              <<"status", PyStr(IF Len(proc.stderr) = 0 THEN "ok" ELSE "error")>>,
              <<"exit_code", PyInt(proc.returncode)>>,
              <<"stdout", PyText(DecodeReplace(proc.stdout))>>,
              <<"stderr", PyText(DecodeReplace(proc.stderr))>> >>)

\* The envelope run_validate returns.
ValidateEnvelope(proc) ==
    PyDict(<< <<"envelope_version", PyStr("1.0.0")>>,
              <<"cmd", PyStr("validate")>>,
              <<"status", PyStr(IF proc.returncode = 0 THEN "ok" ELSE "error")>>,
              <<"exit_code", PyInt(proc.returncode)>>,
              <<"stdout", PyText(DecodeReplace(proc.stdout))>>,
              <<"stderr", PyText(DecodeReplace(proc.stderr))>> >>)

\* What run_validate would do with check=True: raise on a non-zero exit.
ValidateOutcomeChecked(proc) ==
    IF proc.returncode # 0 THEN Raise("CalledProcessError", <<>>)
    ELSE Return(ValidateEnvelope(proc))

\* run_validate after the child's exit.
ValidateOutcome(proc) == Return(ValidateEnvelope(proc))

\* run_validate from its call to the launch of the child, where it blocks.
RunValidateCall(answer) ==
    /\ pc = "idle"
    /\ entry' = "run_validate"
    /\ children' = <<Launch(ValidateArgv, <<>>, answer)>>
    /\ IF answer = "ok"
       THEN pc' = "validate_wait" /\ result' = Pending
       ELSE pc' = "done" /\ result' = Raise(SpawnError(answer), <<>>)
    /\ UNCHANGED <<args, payload, fixtureFile, printed, exitStatus>>

\* run_validate from the child's exit to its own end.
RunValidateReturn ==
    /\ pc = "validate_wait"
    /\ Proc.state = "exited"
    /\ result' = ValidateOutcome(Proc)
    /\ pc' = "done"
    /\ UNCHANGED <<entry, args, payload, children, fixtureFile, printed, exitStatus>>

(***************************************************************************)
(* The demo script                                                         *)
(***************************************************************************)
\* The line the demo prints: print() ends it with a new line.
DemoLine(d) == DumpsIndent(d, 2) \o <<NL>>

\* main() with --fixture: what it prints and how it ends, given the file opened.
FixtureOutcome(file) ==
    IF ~file.exists THEN [out |-> <<>>, result |-> Raise("FileNotFoundError", <<>>)]
    ELSE IF ~WellFormed(file.data)
         THEN [out |-> <<>>, result |-> Raise("UnicodeDecodeError", <<>>)]
    ELSE LET j == Loads(DecodeStrict(file.data)) IN
         IF ~j.ok THEN [out |-> <<>>, result |-> Raise("JSONDecodeError", <<>>)]
         ELSE IF ~IsDict(j.val) THEN [out |-> <<>>, result |-> Raise("AttributeError", <<>>)]
         ELSE [ out |-> DemoLine(PyDict(<< <<"demo", PyStr("python")>>,
                           <<"status", DictGet(j.val, "status", PyStr("unknown"))>> >>)),
                result |-> Return(PyInt(0)) ]

\* The exit status of the interpreter: main()'s value, or 1 for an uncaught exception.
ExitStatusOf(r) == IF r.kind = "return" THEN r.value[2] ELSE 1

\* main(): the fixture branch as a whole, or the call of run_validate up to the
\* launch of the child.
DemoMain(fixture, file, answer) ==
    /\ pc = "idle"
    /\ entry' = "demo"
    /\ args' = [NoArgs EXCEPT !.fixture = fixture]
    /\ IF Truthy(fixture)
       THEN /\ file \in Files(fixture[2])
            /\ fixtureFile' = file
            /\ printed' = FixtureOutcome(file).out
            /\ result' = FixtureOutcome(file).result
            /\ exitStatus' = ExitStatusOf(result')
            /\ pc' = "done"
            /\ UNCHANGED children
       ELSE /\ file = NoFile
            /\ children' = <<Launch(ValidateArgv, <<>>, answer)>>
            /\ IF answer = "ok"
               THEN pc' = "demo_wait" /\ result' = Pending /\ exitStatus' = -1
               ELSE /\ pc' = "done"
                    /\ result' = Raise(SpawnError(answer), <<>>)
                    /\ exitStatus' = 1
            /\ UNCHANGED <<fixtureFile, printed>>
    /\ UNCHANGED payload

\* main() from the child's exit: run_validate returns, the demo prints and ends.
DemoReturn ==
    /\ pc = "demo_wait"
    /\ Proc.state = "exited"
    /\ LET env == ValidateOutcome(Proc) IN
          IF env.kind = "return"
          THEN /\ printed' = DemoLine(PyDict(<< <<"demo", PyStr("python")>>,
                                <<"status", DictGet(env.value, "status", PyNone)>>,
                                <<"exit_code", DictGet(env.value, "exit_code", PyNone)>> >>))
               /\ result' = Return(PyInt(0))
               /\ exitStatus' = 0
          ELSE /\ printed' = <<>>
               /\ result' = env
               /\ exitStatus' = 1
    /\ pc' = "done"
    /\ UNCHANGED <<entry, args, payload, children, fixtureFile>>

(***************************************************************************)
(* The specification                                                       *)
(***************************************************************************)
\* The caller goes on to its next call: nothing of a call outlives it.
NextCall ==
    /\ pc = "done"
    /\ pc' = "idle"
    /\ entry' = "none"
    /\ args' = NoArgs
    /\ payload' = PyNone
    /\ children' = <<>>
    /\ result' = Pending
    /\ fixtureFile' = NoFile
    /\ printed' = <<>>
    /\ exitStatus' = -1

Next ==
    \/ \E op \in Ops, params \in ParamsArgs, rid \in RequestIdArgs,
          uuid \in UUIDs, answer \in LaunchAnswers :
          RunRpcCall(op, params, rid, uuid, answer)
    \/ RunRpcReturn
    \/ \E answer \in LaunchAnswers : RunValidateCall(answer)
    \/ RunValidateReturn
    \/ \E fixture \in FixtureArgs, file \in UNION {Files(p) : p \in {"", "fixture.json"}},
          answer \in LaunchAnswers :
          DemoMain(fixture, file, answer)
    \/ DemoReturn
    \/ ChildExit
    \/ NextCall

Spec == Init /\ [][Next]_vars

(***************************************************************************)
(* Properties                                                              *)
(***************************************************************************)
\* The call `e` has ended after its child ran to its exit.
EndedAfterExit(e) ==
    pc = "done" /\ entry = e /\ Len(children) > 0 /\ Proc.state = "exited"

\* The reply of the child decodes to a JSON object.
ReplyIsObject ==
    /\ WellFormed(Proc.stdout)
    /\ Loads(DecodeStrict(Proc.stdout)).ok
    /\ IsDict(Loads(DecodeStrict(Proc.stdout)).val)

Reply == Loads(DecodeStrict(Proc.stdout)).val

\* The JSON values Python takes for false.
JsonFalsy(v) ==
    v \in {PyFalse, PyNone, PyInt(0), PyStr(""), PyList(<<>>), PyDict(<<>>)}

\* m is t without its leading and trailing white space.
IsTrimOf(m, t) ==
    /\ \E i \in 0..Len(t) :
          /\ Len(m) + i <= Len(t)
          /\ m = SubSeq(t, i + 1, i + Len(m))
          /\ \A k \in 1..Len(t) : (k <= i \/ k > i + Len(m)) => IsSpace(t[k])
    /\ Len(m) > 0 => ~IsSpace(m[1]) /\ ~IsSpace(m[Len(m)])

\* The exception run_rpc raises for a child that exited with a non-zero code.
NonZeroExitError ==
    RpcOutcome([returncode |-> 1, stdout |-> <<>>, stderr |-> <<>>], PyNone).exc

\* C1: the envelope of run_validate has status "ok" exactly when the child's exit
\* code is 0 and "error" otherwise, whatever the child wrote, and its exit_code is
\* the child's exit code.
C1_ValidateStatus ==
    EndedAfterExit("run_validate") =>
        /\ result.kind = "return"
        /\ IsDict(result.value)
        /\ DictGet(result.value, "status", PyNone) \in {PyStr("ok"), PyStr("error")}
        /\ (DictGet(result.value, "status", PyNone) = PyStr("ok")) <=> (Proc.returncode = 0)
        /\ DictGet(result.value, "exit_code", PyNone) = PyInt(Proc.returncode)

\* C1 witness: exit code 127 with nothing on stderr gives status "error".
C1_Witness ==
    /\ EndedAfterExit("run_validate")
    /\ Proc.returncode = 127
    /\ Len(Proc.stderr) = 0
    /\ DictGet(result.value, "status", PyNone) = PyStr("error")

\* C2: when the rpc child exits with a non-zero code, run_rpc returns nothing and
\* raises the error of a failed invocation, whose message is the child's stderr text
\* without its leading and trailing white space, whatever the child wrote to stdout.
C2_RpcNonZeroExit ==
    (EndedAfterExit("run_rpc") /\ Proc.returncode # 0) =>
        /\ result.kind = "raise"
        /\ result.exc = "RuntimeError"
        /\ IsTrimOf(result.msg, DecodeReplace(Proc.stderr))

\* C2 witness: exit 1 with " \nboom\n" on stderr and a successful reply on stdout
\* raises with the message "boom".
C2_Witness ==
    /\ EndedAfterExit("run_rpc")
    /\ Proc.returncode = 1
    /\ Proc.stderr = Encode(<<SP, NL>> \o Boom \o <<NL>>)
    /\ Proc.stdout = Encode(Dumps(PyDict(<< <<"success", PyTrue>> >>)))
    /\ result.kind = "raise"
    /\ result.msg = Boom

\* C3 as stated: when the child exits 0 and its stdout decodes to a JSON object,
\* run_rpc returns a record whose raw is the decoded reply, whose id is the reply's
\* id or else the id of the request sent, and whose success is the reply's success
\* field or else false.
C3_AsStated ==
    (EndedAfterExit("run_rpc") /\ Proc.returncode = 0 /\ ReplyIsObject) =>
        /\ result.kind = "return"
        /\ result.value.raw = Reply
        /\ result.value.id =
              (IF HasKey(Reply, "id") THEN DictGet(Reply, "id", PyNone)
               ELSE DictGet(payload, "id", PyNone))
        /\ result.value.success =
              (IF HasKey(Reply, "success") THEN DictGet(Reply, "success", PyNone)
               ELSE PyFalse)

\* C3 amended: as above, but success is the truth value of the reply's success field
\* (true unless the field is false, null, 0 or empty), and false when it is absent.
C3_RpcResponse ==
    (EndedAfterExit("run_rpc") /\ Proc.returncode = 0 /\ ReplyIsObject) =>
        /\ result.kind = "return"
        /\ result.value.raw = Reply
        /\ result.value.id =
              (IF HasKey(Reply, "id") THEN DictGet(Reply, "id", PyNone)
               ELSE DictGet(payload, "id", PyNone))
        /\ result.value.success =
              (IF HasKey(Reply, "success") /\ ~JsonFalsy(DictGet(Reply, "success", PyNone))
               THEN PyTrue ELSE PyFalse)

\* C3 witness: the reply {"success": "no"} to a request with a generated id gives
\* success true and the generated id.
C3_Witness ==
    /\ EndedAfterExit("run_rpc")
    /\ Proc.returncode = 0
    /\ Proc.stdout = Encode(Dumps(PyDict(<< <<"success", PyStr("no")>> >>)))
    /\ args.request_id = PyNone
    /\ result.kind = "return"
    /\ result.value.success = PyTrue
    /\ result.value.id = PyStr("uuid4-a")

\* The request the child reads on its stdin, decoded.
Sent == Loads(DecodeStrict(children[1].stdin)).val

\* C4: the request written to the child's stdin decodes to the given op, the given
\* params (the empty mapping when omitted) and the given request_id whenever one is
\* supplied; a generated UUID is its id only when request_id is omitted.
C4_RequestEnvelope ==
    (entry = "run_rpc" /\ Len(children) > 0 /\ children[1].state # "failed") =>
        /\ WellFormed(children[1].stdin)
        /\ Loads(DecodeStrict(children[1].stdin)).ok
        /\ DictGet(Sent, "op", PyNone) = PyStr(args.op)
        /\ DictGet(Sent, "params", PyNone) =
              (IF args.params = PyNone THEN PyDict(<<>>) ELSE args.params)
        /\ args.request_id # PyNone => DictGet(Sent, "id", PyNone) = args.request_id
        /\ args.request_id = PyNone =>
              DictGet(Sent, "id", PyNone) \in {PyStr(u) : u \in UUIDs}

\* C5 as stated: run_validate never raises; every call returns an envelope, and a
\* non-zero exit is reported in it with the exit code and the captured streams.
C5_AsStated ==
    (pc = "done" /\ entry = "run_validate") =>
        /\ result.kind = "return"
        /\ Proc.returncode # 0 =>
              /\ DictGet(result.value, "status", PyNone) = PyStr("error")
              /\ DictGet(result.value, "exit_code", PyNone) = PyInt(Proc.returncode)
              /\ DictGet(result.value, "stdout", PyNone) = PyText(DecodeReplace(Proc.stdout))
              /\ DictGet(result.value, "stderr", PyNone) = PyText(DecodeReplace(Proc.stderr))

\* C5 amended: run_validate never raises once its child has been launched: for every
\* exit of the child it returns an envelope, and a non-zero exit is reported in it
\* with the exit code and the captured streams.
C5_ValidateNeverRaisesAfterLaunch ==
    EndedAfterExit("run_validate") =>
        /\ result.kind = "return"
        /\ Proc.returncode # 0 =>
              /\ DictGet(result.value, "status", PyNone) = PyStr("error")
              /\ DictGet(result.value, "exit_code", PyNone) = PyInt(Proc.returncode)
              /\ DictGet(result.value, "stdout", PyNone) = PyText(DecodeReplace(Proc.stdout))
              /\ DictGet(result.value, "stderr", PyNone) = PyText(DecodeReplace(Proc.stderr))

\* C5 witness: a child killed by a signal, with bytes on stderr that are no UTF-8, is
\* reported in a returned envelope.
C5_Witness ==
    /\ EndedAfterExit("run_validate")
    /\ Proc.returncode = -9
    /\ Proc.stderr = <<BadByte>>
    /\ result.kind = "return"
    /\ DictGet(result.value, "stderr", PyNone) = PyText(<<Replacement>>)

\* C6: when the executable cannot be launched, run_rpc, run_validate and the demo
\* end with an exception of the operating system, which is not the exception of a
\* non-zero exit, and run_validate returns no envelope.
C6_LaunchFailure ==
    (pc = "done" /\ Len(children) > 0 /\ Proc.state = "failed") =>
        /\ result.kind = "raise"
        /\ result.exc \in {"FileNotFoundError", "PermissionError"}
        /\ result.exc # NonZeroExitError

\* C6 witness: run_validate with the executable missing.
C6_Witness ==
    /\ pc = "done"
    /\ entry = "run_validate"
    /\ Len(children) = 1
    /\ Proc.state = "failed"
    /\ result.exc = "FileNotFoundError"

\* C7: a call launches the executable once and ends only after the child's exit: no
\* second launch on any path, never two children running, none running at the end.
C7_OneChildPerCall ==
    /\ Len(children) <= 1
    /\ Live <= 1
    /\ (entry \in {"run_rpc", "run_validate"} \/ pc = "demo_wait") => Len(children) = 1
    /\ pc = "done" => Live = 0
    /\ pc \in {"rpc_wait", "validate_wait", "demo_wait"} => result.kind = "none"

\* C7 witness: run_rpc ended on a reply that does not decode, after one launch.
C7_Witness ==
    /\ EndedAfterExit("run_rpc")
    /\ result.exc = "JSONDecodeError"
    /\ Len(children) = 1

\* The fixture file holds a JSON object.
FixtureIsObject ==
    /\ fixtureFile.exists
    /\ WellFormed(fixtureFile.data)
    /\ Loads(DecodeStrict(fixtureFile.data)).ok
    /\ IsDict(Loads(DecodeStrict(fixtureFile.data)).val)

\* C8: run with --fixture, the demo launches no child; for a fixture file holding a
\* JSON object with a status it prints the object of "demo": "python" and that
\* status, and exits with status 0.
C8_FixtureNoSubprocess ==
    (entry = "demo" /\ args.fixture # PyNone) =>
        /\ Len(children) = 0
        /\ (pc = "done" /\ FixtureIsObject
              /\ HasKey(Loads(DecodeStrict(fixtureFile.data)).val, "status")) =>
              /\ exitStatus = 0
              /\ Loads(printed).ok
              /\ Loads(printed).val =
                    PyDict(<< <<"demo", PyStr("python")>>,
                              <<"status", DictGet(Loads(DecodeStrict(fixtureFile.data)).val,
                                                  "status", PyNone)>> >>)

\* C9: every record run_rpc returns has a string for its id and a boolean for its
\* success, which is true exactly when the reply's success field is taken for true.
C9_ResponseTypes ==
    (EndedAfterExit("run_rpc") /\ result.kind = "return") =>
        /\ IsStr(result.value.id)
        /\ IsBool(result.value.success)
        /\ (result.value.success = PyTrue) <=>
              (HasKey(Reply, "success") /\ ~JsonFalsy(DictGet(Reply, "success", PyNone)))

\* C10: when the child exits 0 and its stdout is no JSON object, run_rpc returns no
\* record and raises an error that is not the error of a non-zero exit (a decoding
\* error when stdout is no JSON at all); when the child exits non-zero, the error of
\* a non-zero exit is raised whatever stdout holds.
C10_MalformedReply ==
    EndedAfterExit("run_rpc") =>
        /\ (Proc.returncode = 0 /\ ~ReplyIsObject) =>
              /\ result.kind = "raise"
              /\ result.exc \in {"UnicodeDecodeError", "JSONDecodeError", "AttributeError"}
              /\ result.exc # NonZeroExitError
        /\ (Proc.returncode = 0 /\ ~(WellFormed(Proc.stdout)
                                     /\ Loads(DecodeStrict(Proc.stdout)).ok)) =>
              result.exc \in {"UnicodeDecodeError", "JSONDecodeError"}
        /\ (Proc.returncode # 0 /\ ~ReplyIsObject) =>
              result.kind = "raise" /\ result.exc = NonZeroExitError

\* C10 witness: exit 0 with "{" on stdout raises a JSON decoding error.
C10_Witness ==
    /\ EndedAfterExit("run_rpc")
    /\ Proc.returncode = 0
    /\ Proc.stdout = Encode(<<LBrace>>)
    /\ result.kind = "raise"
    /\ result.exc = "JSONDecodeError"

====
